---- MODULE Spec2Model ----
(***************************************************************************)
(* Model of the coordinator's MasterRecoveryManager                        *)
(* (src/src/MasterRecoveryManager.cc): the serialized task queue, the      *)
(* waiting queue and the active set of recoveries, the tablet map and the  *)
(* server list it finalizes, and the Recovery handles it drives.           *)
(***************************************************************************)
EXTENDS Integers, Sequences, FiniteSets, TLC

\* ---------------------------------------------------------------- bounds
\* Largest value of maxActiveRecoveries explored (the constructor's default
\* is 1; the member is a policy dial).
MaxCap == 2
\* Number of inputs from outside explored in one run: calls of the entry
\* points, membership events pushed by the server list, and recoveries
\* that find no complete log and give up at their first task.
MaxInputs == 3
\* Number of extra clean-up tasks a finished Recovery may run before it
\* asks to be freed.
MaxCleanup == 1
\* Number of inputs explored in the runs that only enqueue recoveries and
\* let them be admitted (AdmissionSpec).
MaxEnqueues == 4

\* ------------------------------------------------------------- universe
\* Servers 1..3 are the masters that may crash (3 owns no tablet); 4..6
\* stay up and serve as recovery masters.
Servers == 1..6
CrashableServers == {1, 2, 3}
RecoveryMasters == {4, 5, 6}
\* Servers the server list reports membership events about.
EventServers == {1, 4}
\* Key triples (table_id, start_key_hash, end_key_hash) named 1..4; the
\* tablet map holds 1..3, key 4 names a tablet that is not in the map.
MappedKeys == {1, 2, 3}
ReportKeys == {1, 2, 3, 4}
NoRecovery == 0

InitialOwner(k) == IF k = 3 THEN 2 ELSE 1

\* The will kept in the server list entry: tablets tagged with a partition.
WillOf(s) ==
    IF s = 1 THEN << [key |-> 1, partition |-> 0], [key |-> 2, partition |-> 1] >>
    ELSE IF s = 2 THEN << [key |-> 3, partition |-> 0] >>
    ELSE << >>

MinOpenSegmentIdOf(s) == 10 + s

Entry(k, s) == [key |-> k, server_id |-> s, head |-> <<20 + s, 30 + k>>]

\* The completion reports a recovery master may send: its id, the
\* recoveredTablets it lists and its verdict.
Report(master, tablets, ok) ==
    [master |-> master, tablets |-> tablets, ok |-> ok]

ReportChoices ==
    { Report(4, << Entry(1, 4) >>, TRUE),
      Report(5, << Entry(2, 5) >>, TRUE),
      Report(4, << Entry(3, 5) >>, TRUE),
      Report(4, << Entry(1, 4) >>, FALSE),
      Report(5, << Entry(2, 5), Entry(4, 5) >>, TRUE) }

Events == {"SERVER_ADDED", "SERVER_CRASHED", "SERVER_REMOVED"}

Change(s, event) == [server |-> s, event |-> event]

\* What the server list pushes into the tracker before it calls
\* trackerChangesEnqueued once: one event, or two events together.
ChangeBatches ==
    { << Change(s, event) >> : s \in EventServers, event \in Events }
    \cup { << Change(1, "SERVER_CRASHED"), Change(4, "SERVER_CRASHED") >>,
           << Change(1, "SERVER_ADDED"), Change(4, "SERVER_REMOVED") >> }

\* --------------------------------------------------------------- state
VARIABLES
    serverList,            \* [servers, version, updates]
    tabletMap,             \* key -> [owner, status, head]
    waitingRecoveries,     \* FIFO of recovery ids
    activeRecoveries,      \* recoveryId -> Recovery, kept as the set of ids
    maxActiveRecoveries,
    taskQueue,             \* FIFO of scheduled tasks
    tracker,               \* [changes, slot]
    doNotStartRecoveries,
    recoveries,            \* every Recovery constructed so far, by id
    modifyCount,           \* recoveryId -> key -> modifyTablet calls applied
    aborted,               \* DIE was reached
    budget,                \* inputs from outside the run may still take
    lastOp,                \* the operation that made the last step
    thread,                \* the Tub holds a thread object
    worker,                \* where the thread running main() is
    workers,               \* worker threads launched and not yet joined
    halted,                \* the task queue's halt flag
    joining,               \* a caller of halt() waits in thread->join()
    liveTasks,             \* one-shot task objects allocated, not deleted
    pending                \* queue position of the task a caller inside
                           \* trackerChangesEnqueued has constructed

vars == << serverList, tabletMap, waitingRecoveries, activeRecoveries,
           maxActiveRecoveries, taskQueue, tracker, doNotStartRecoveries,
           recoveries, modifyCount, aborted, budget, lastOp,
           thread, worker, workers, halted, joining, liveTasks, pending >>

\* No thread is between the constructor and schedule() in
\* trackerChangesEnqueued.
NoCall == -1

lifeVars == << thread, worker, workers, halted, joining >>

\* ------------------------------------------------------------- helpers
Range(f) == { f[i] : i \in DOMAIN f }

Partitions(will) == { will[i].partition : i \in DOMAIN will }

Task(kind, rid, master, tablets, ok) ==
    [kind |-> kind, recoveryId |-> rid, recoveryMasterId |-> master,
     recoveredTablets |-> tablets, successful |-> ok]

ApplyTrackerChangesTask == Task("ApplyTrackerChangesTask", 0, 0, << >>, FALSE)
MaybeStartRecoveryTask == Task("MaybeStartRecoveryTask", 0, 0, << >>, FALSE)
EnqueueMasterRecoveryTask(rid) ==
    Task("EnqueueMasterRecoveryTask", rid, 0, << >>, FALSE)
RecoveryMasterFinishedTask(rid, master, tablets, ok) ==
    Task("RecoveryMasterFinishedTask", rid, master, tablets, ok)
RecoveryTask(rid) == Task("Recovery", rid, 0, << >>, FALSE)

\* The part of the state the handlers read and write, as one record that
\* the handlers below transform.
State ==
    [serverList |-> serverList, tabletMap |-> tabletMap,
     waitingRecoveries |-> waitingRecoveries,
     activeRecoveries |-> activeRecoveries, taskQueue |-> taskQueue,
     tracker |-> tracker, recoveries |-> recoveries,
     modifyCount |-> modifyCount, aborted |-> aborted,
     liveTasks |-> liveTasks]

Install(st) ==
    /\ serverList' = st.serverList
    /\ tabletMap' = st.tabletMap
    /\ waitingRecoveries' = st.waitingRecoveries
    /\ activeRecoveries' = st.activeRecoveries
    /\ taskQueue' = st.taskQueue
    /\ tracker' = st.tracker
    /\ recoveries' = st.recoveries
    /\ modifyCount' = st.modifyCount
    /\ aborted' = st.aborted
    /\ liveTasks' = st.liveTasks

\* TaskQueue::schedule on a task object whose scheduled flag is given: no
\* second entry while the task is scheduled.
TaskQueueSchedule(st, task, scheduled) ==
    IF scheduled THEN st ELSE [st EXCEPT !.taskQueue = Append(@, task)]

\* new: one more one-shot task object.
New(st) == [st EXCEPT !.liveTasks = @ + 1]

\* delete this: the running task object is gone.
DeleteThis(st) == [st EXCEPT !.liveTasks = @ - 1]

\* (new T(...))->schedule() for a freshly constructed one-shot task.
Schedule(st, task) == TaskQueueSchedule(New(st), task, FALSE)

\* Task::schedule on a Recovery: no second entry while it is scheduled.
ScheduleRecovery(st, r) ==
    IF st.recoveries[r].scheduled THEN st
    ELSE [st EXCEPT !.taskQueue = Append(@, RecoveryTask(r)),
                    !.recoveries[r].scheduled = TRUE]

\* ------------------------------------------------ Recovery (the handle)
\* Recovery constructor: a fresh recoveryId is the next index.
NewRecovery(crashedServerId, will, minOpenSegmentId) ==
    [crashedServerId |-> crashedServerId, will |-> will,
     minOpenSegmentId |-> minOpenSegmentId,
     status |-> "START", scheduled |-> FALSE,
     masters |-> [p \in Partitions(will) |-> 0],
     verdict |-> [p \in Partitions(will) |-> "none"],
     notifications |-> << >>, finishedCalls |-> 0, cleanup |-> 0]

WasCompletelySuccessful(rec) ==
    \A p \in DOMAIN rec.verdict : rec.verdict[p] = "ok"

AllVerdictsIn(rec) ==
    \A p \in DOMAIN rec.verdict : rec.verdict[p] # "none"

\* EnqueueMasterRecoveryTask constructor: builds the Recovery at once.
ConstructEnqueueTask(st, crashedServerId, will, minOpenSegmentId) ==
    LET rid == Len(st.recoveries) + 1
        st1 == [st EXCEPT !.recoveries =
                   Append(@, NewRecovery(crashedServerId, will,
                                         minOpenSegmentId)),
                          !.modifyCount =
                   Append(@, [k \in MappedKeys |-> 0])]
    IN  Schedule(st1, EnqueueMasterRecoveryTask(rid))

\* new ApplyTrackerChangesTask(*this): the constructor schedules the task.
ConstructApplyTrackerChangesTask(st) == Schedule(st, ApplyTrackerChangesTask)

\* Variant of trackerChangesEnqueued that builds a second task for its own
\* schedule() instead of scheduling the one the constructor scheduled.
TrackerChangesEnqueuedTwoTasks(st) ==
    Schedule(ConstructApplyTrackerChangesTask(st), ApplyTrackerChangesTask)

\* MasterRecoveryManager::trackerChangesEnqueued with nothing running
\* between the constructor and the caller's schedule(): the task is still
\* scheduled when schedule() is called on it again.
TrackerChangesEnqueued(st) ==
    TaskQueueSchedule(ConstructApplyTrackerChangesTask(st),
                      ApplyTrackerChangesTask, TRUE)

\* serverList.remove + incrementVersion + sendMembershipUpdate; the removal
\* is pushed to the tracker, which fires trackerChangesEnqueued.

RemoveFromServerList(st, s) ==
    LET st1 == [st EXCEPT !.serverList.servers = @ \ {s},
                          !.serverList.version = @ + 1,
                          !.serverList.updates = @ + 1]
    IN  IF s \in st.serverList.servers
        THEN TrackerChangesEnqueued(
                 [st1 EXCEPT !.tracker.changes =
                     Append(@, Change(s, "SERVER_REMOVED"))])
        ELSE st1

\* Variant that hands the recovery id over where minOpenSegmentId belongs.
RecoveryFinishedWrongSegmentId(st, r) ==
    LET rec == st.recoveries[r]
        st1 == [st EXCEPT !.recoveries[r].finishedCalls = @ + 1]
    IN  IF WasCompletelySuccessful(rec)
        THEN Schedule(RemoveFromServerList(st1, rec.crashedServerId),
                      MaybeStartRecoveryTask)
        ELSE ConstructEnqueueTask(st1, rec.crashedServerId, rec.will, r)

\* Variant that removes the crashed server whatever the outcome.
RecoveryFinishedAlwaysRemoves(st, r) ==
    LET rec == st.recoveries[r]
        st1 == RemoveFromServerList(
                   [st EXCEPT !.recoveries[r].finishedCalls = @ + 1],
                   rec.crashedServerId)
    IN  IF WasCompletelySuccessful(rec)
        THEN Schedule(st1, MaybeStartRecoveryTask)
        ELSE ConstructEnqueueTask(st1, rec.crashedServerId, rec.will,
                                  rec.minOpenSegmentId)

\* Variant with the erase moved from destroyAndFreeRecovery to here.
RecoveryFinishedErases(st, r) ==
    LET rec == st.recoveries[r]
        st1 == [st EXCEPT !.recoveries[r].finishedCalls = @ + 1,
                          !.activeRecoveries = @ \ {r}]
    IN  IF WasCompletelySuccessful(rec)
        THEN Schedule(RemoveFromServerList(st1, rec.crashedServerId),
                      MaybeStartRecoveryTask)
        ELSE ConstructEnqueueTask(st1, rec.crashedServerId, rec.will,
                                  rec.minOpenSegmentId)

\* MasterRecoveryManager::recoveryFinished
RecoveryFinished(st, r) ==
    LET rec == st.recoveries[r]
        st1 == [st EXCEPT !.recoveries[r].finishedCalls = @ + 1]
    IN  IF WasCompletelySuccessful(rec)
        THEN Schedule(RemoveFromServerList(st1, rec.crashedServerId),
                      MaybeStartRecoveryTask)
        ELSE ConstructEnqueueTask(st1, rec.crashedServerId, rec.will,
                                  rec.minOpenSegmentId)

\* MasterRecoveryManager::destroyAndFreeRecovery
DestroyAndFreeRecovery(st, r) ==
    [st EXCEPT !.activeRecoveries = @ \ {r},
               !.recoveries[r].status = "DONE"]

\* The Recovery has seen its last verdict: it tells the manager and
\* schedules itself for the clean-up that ends in destroyAndFreeRecovery.
Conclude(st, r) ==
    ScheduleRecovery(
        RecoveryFinished([st EXCEPT !.recoveries[r].status = "BROADCAST"], r),
        r)

\* Recovery::recoveryMasterFinished
NotifyRecovery(st, r, master, ok) ==
    LET rec == st.recoveries[r]
        st1 == [st EXCEPT !.recoveries[r].notifications =
                              Append(@, <<master, ok>>)]
        mine == { p \in DOMAIN rec.masters :
                    rec.masters[p] = master /\ rec.verdict[p] = "none" }
    IN  IF rec.status = "WAIT_FOR_RECOVERY_MASTERS" /\ mine # {}
        THEN LET p == CHOOSE q \in mine : TRUE
                 st2 == [st1 EXCEPT
                           !.recoveries[r].verdict[p] =
                               IF ok THEN "ok" ELSE "failed",
                           !.tracker.slot[master] = NoRecovery]
             IN  IF AllVerdictsIn(st2.recoveries[r])
                 THEN Conclude(st2, r) ELSE st2
        ELSE st1

\* ------------------------------------------------------ task bodies
\* TabletMap::modifyTablet over recoveredTablets, in order; a missing key
\* reaches DIE and nothing after it is applied.
RECURSIVE ModifyTablets(_, _, _)
ModifyTablets(st, r, tablets) ==
    IF tablets = << >> THEN st
    ELSE LET e == Head(tablets)
         IN  IF e.key \notin DOMAIN st.tabletMap
             THEN [st EXCEPT !.aborted = TRUE]
             ELSE ModifyTablets(
                    [st EXCEPT
                       !.tabletMap[e.key] =
                           [owner |-> e.server_id, status |-> "NORMAL",
                            head |-> e.head],
                       !.modifyCount[r][e.key] = @ + 1],
                    r, Tail(tablets))

\* Variant that finds any Recovery constructed so far, freed ones included.
FindConstructed(st, recoveryId) == recoveryId \in DOMAIN st.recoveries

\* mgr.activeRecoveries.find(recoveryId) != end()
FindActive(st, recoveryId) == recoveryId \in st.activeRecoveries

\* Variant that updates the tablet map whatever the verdict.
UpdatesTabletMapAlways(t) == TRUE

\* The branch that updates the tablet map.
UpdatesTabletMap(t) == t.successful

\* Variant that puts a report for an unknown recoveryId back on the queue
\* instead of dropping it.
RecoveryMasterFinishedRetriesUnknown(st, t) ==
    IF ~FindActive(st, t.recoveryId)
    THEN TaskQueueSchedule(st, t, FALSE)
    ELSE LET st1 == IF UpdatesTabletMap(t)
                    THEN ModifyTablets(st, t.recoveryId, t.recoveredTablets)
                    ELSE st
         IN  IF st1.aborted THEN st1
             ELSE DeleteThis(NotifyRecovery(st1, t.recoveryId,
                                            t.recoveryMasterId,
                                            t.successful))

\* Variant that treats a missing key like the TODO at the catch suggests it
\* might: it carries on instead of reaching DIE.
RecoveryMasterFinishedCarriesOn(st, t) ==
    IF ~FindActive(st, t.recoveryId) THEN DeleteThis(st)
    ELSE LET st1 == IF UpdatesTabletMap(t)
                    THEN ModifyTablets(st, t.recoveryId, t.recoveredTablets)
                    ELSE st
         IN  DeleteThis(NotifyRecovery([st1 EXCEPT !.aborted = FALSE],
                                       t.recoveryId, t.recoveryMasterId,
                                       t.successful))

\* RecoveryMasterFinishedTask::performTask
RecoveryMasterFinishedBody(st, t) ==
    IF ~FindActive(st, t.recoveryId) THEN DeleteThis(st)
    ELSE LET st1 == IF UpdatesTabletMap(t)
                    THEN ModifyTablets(st, t.recoveryId, t.recoveredTablets)
                    ELSE st
         IN  IF st1.aborted THEN st1
             ELSE DeleteThis(NotifyRecovery(st1, t.recoveryId,
                                            t.recoveryMasterId,
                                            t.successful))

\* The while loop of MaybeStartRecoveryTask::performTask; alreadyActive
\* collects the deferred recoveries.
\* Variant of the loop condition that admits one more than the cap.
MayAdmitUpToCap(st) ==
    /\ st.waitingRecoveries # << >>
    /\ Cardinality(st.activeRecoveries) <= maxActiveRecoveries

\* The loop condition: something waits and a slot is free.
MayAdmit(st) ==
    /\ st.waitingRecoveries # << >>
    /\ Cardinality(st.activeRecoveries) < maxActiveRecoveries

\* Variant that compares recovery ids instead of crashed server ids.
ServerAlreadyRecoveringById(st, recovery) ==
    \E other \in st.activeRecoveries : other = recovery

\* The foreach over activeRecoveries that sets serverAlreadyRecovering.
ServerAlreadyRecovering(st, recovery) ==
    \E other \in st.activeRecoveries :
        st.recoveries[other].crashedServerId =
            st.recoveries[recovery].crashedServerId

\* Variant that puts the deferred recoveries back in front of the queue.
PushFront(waiting, alreadyActive) == alreadyActive \o waiting

\* Variant that forgets the deferred recoveries.
PushBackNothing(waiting, alreadyActive) == waiting

\* The foreach that pushes the deferred recoveries back.
PushBack(waiting, alreadyActive) == waiting \o alreadyActive

\* Variant of the loop that schedules the Recovery it starts but leaves out
\* the insertion into activeRecoveries.
RECURSIVE MaybeStartLoopSchedulesOnly(_, _)
MaybeStartLoopSchedulesOnly(st, alreadyActive) ==
    IF MayAdmit(st)
    THEN LET recovery == Head(st.waitingRecoveries)
         IN  IF ServerAlreadyRecovering(st, recovery)
             THEN MaybeStartLoopSchedulesOnly(
                      [st EXCEPT !.waitingRecoveries = Tail(@)],
                      Append(alreadyActive, recovery))
             ELSE MaybeStartLoopSchedulesOnly(
                      [ScheduleRecovery(st, recovery) EXCEPT
                          !.waitingRecoveries = Tail(@)],
                      alreadyActive)
    ELSE DeleteThis(
             [st EXCEPT !.waitingRecoveries = PushBack(@, alreadyActive)])

RECURSIVE MaybeStartLoop(_, _)
MaybeStartLoop(st, alreadyActive) ==
    IF MayAdmit(st)
    THEN LET recovery == Head(st.waitingRecoveries)
         IN  IF ServerAlreadyRecovering(st, recovery)
             THEN MaybeStartLoop(
                      [st EXCEPT !.waitingRecoveries = Tail(@)],
                      Append(alreadyActive, recovery))
             ELSE MaybeStartLoop(
                      [ScheduleRecovery(st, recovery) EXCEPT
                          !.activeRecoveries = @ \cup {recovery},
                          !.waitingRecoveries = Tail(@)],
                      alreadyActive)
    ELSE DeleteThis(
             [st EXCEPT !.waitingRecoveries = PushBack(@, alreadyActive)])

\* MaybeStartRecoveryTask::performTask
MaybeStartRecoveryBody(st) == MaybeStartLoop(st, << >>)

\* EnqueueMasterRecoveryTask::performTask
EnqueueMasterRecoveryBody(st, t) ==
    DeleteThis(
        Schedule([st EXCEPT !.waitingRecoveries = Append(@, t.recoveryId)],
                 MaybeStartRecoveryTask))

\* The while loop of ApplyTrackerChangesTask::performTask over getChange.
RECURSIVE ApplyTrackerChangesBody(_)
ApplyTrackerChangesBody(st) ==
    IF st.tracker.changes = << >> THEN st
    ELSE LET change == Head(st.tracker.changes)
             st1 == [st EXCEPT !.tracker.changes = Tail(@)]
             recovery == st1.tracker.slot[change.server]
         IN  IF change.event \in {"SERVER_CRASHED", "SERVER_REMOVED"}
             THEN IF recovery = NoRecovery THEN st1
                  ELSE ApplyTrackerChangesBody(
                           NotifyRecovery(st1, recovery, change.server, FALSE))
             ELSE ApplyTrackerChangesBody(st1)

\* Recovery::performTask when first run: it hands each partition of the
\* will to a recovery master (0: none could be used, the partition fails).
Available(st, r) ==
    { s \in RecoveryMasters \cap st.serverList.servers :
        st.tracker.slot[s] = NoRecovery }

\* Either every partition gets the lowest free recovery masters in order
\* (as far as they reach), or none could be started.
RECURSIVE Assign(_, _)
Assign(parts, avail) ==
    IF parts = {} THEN << >>
    ELSE LET p == CHOOSE q \in parts : \A o \in parts : q <= o
             m == IF avail = {} THEN 0
                  ELSE CHOOSE a \in avail : \A o \in avail : a <= o
         IN  (p :> m) @@ Assign(parts \ {p}, avail \ {m})

NoMasters(st, r) == [p \in DOMAIN st.recoveries[r].masters |-> 0]

Assignments(st, r) ==
    { Assign(DOMAIN st.recoveries[r].masters, Available(st, r)) }
    \cup (IF budget > 0 THEN { NoMasters(st, r) } ELSE {})

StartRecovery(st, r, m) ==
    LET st1 == [st EXCEPT
                  !.recoveries[r].masters = m,
                  !.recoveries[r].verdict =
                      [p \in DOMAIN m |-> IF m[p] = 0 THEN "failed"
                                          ELSE "none"],
                  !.recoveries[r].status = "WAIT_FOR_RECOVERY_MASTERS",
                  !.tracker.slot =
                      [s \in DOMAIN @ |->
                          IF s \in Range(m) THEN r ELSE @[s]]]
    IN  IF AllVerdictsIn(st1.recoveries[r]) THEN Conclude(st1, r) ELSE st1

\* One more clean-up task of a finished Recovery.
CleanupRecovery(st, r) ==
    ScheduleRecovery([st EXCEPT !.recoveries[r].cleanup = @ + 1], r)

\* TaskQueue::performTask takes the task off the queue before running it.
Pop(st) == [st EXCEPT !.taskQueue = Tail(@)]

PopRecovery(st, r) ==
    [Pop(st) EXCEPT !.recoveries[r].scheduled = FALSE]

\* ---------------------------------------------------------------- Init
Op(name, did, id) == [op |-> name, did |-> did, id |-> id, task |-> << >>]
OpTask(name, did, t) ==
    [op |-> name, did |-> did, id |-> t.recoveryId, task |-> << t >>]

\* The members as the constructor leaves them.
Constructed ==
    /\ serverList = [servers |-> Servers, version |-> 0, updates |-> 0]
    /\ tabletMap = [k \in MappedKeys |->
                      [owner |-> InitialOwner(k), status |-> "NORMAL",
                       head |-> <<0, 0>>]]
    /\ waitingRecoveries = << >>
    /\ activeRecoveries = {}
    /\ maxActiveRecoveries \in 1..MaxCap
    /\ taskQueue = << >>
    /\ tracker = [changes |-> << >>, slot |-> [s \in Servers |-> NoRecovery]]
    /\ doNotStartRecoveries = FALSE
    /\ recoveries = << >>
    /\ modifyCount = << >>
    /\ aborted = FALSE
    /\ lastOp = Op("init", "", 0)
    /\ halted = FALSE
    /\ joining = FALSE
    /\ liveTasks = 0
    /\ pending = NoCall

\* The manager in service: constructed, and start() has been called.
Init ==
    /\ Constructed
    /\ thread = TRUE
    /\ worker = "idle"
    /\ workers = 1
    /\ budget = MaxInputs

\* The manager in service, for the runs that only enqueue recoveries.
AdmissionInit ==
    /\ Constructed
    /\ thread = TRUE
    /\ worker = "idle"
    /\ workers = 1
    /\ budget = MaxEnqueues

\* The manager right after construction: no thread yet.
LifeInit ==
    /\ Constructed
    /\ thread = FALSE
    /\ worker = "none"
    /\ workers = 0
    /\ budget = MaxInputs

\* ------------------------------------------------------- entry points
\* TabletMap::setStatusForServer(crashedServerId, RECOVERING)
SetStatusForServer(st, s, status) ==
    [st EXCEPT !.tabletMap =
        [k \in DOMAIN @ |->
            IF @[k].owner = s THEN [@[k] EXCEPT !.status = status]
            ELSE @[k]]]

TabletsOf(st, s) == { k \in DOMAIN st.tabletMap : st.tabletMap[k].owner = s }

\* Variant that pushes the new Recovery onto waitingRecoveries in the
\* caller's thread instead of leaving it to the task.
RestartMasterRecoveryPushesDirectly(st, s) ==
    IF s \notin st.serverList.servers \/ doNotStartRecoveries THEN st
    ELSE LET st1 == ConstructEnqueueTask(st, s, WillOf(s),
                                         MinOpenSegmentIdOf(s))
         IN  [st1 EXCEPT !.waitingRecoveries =
                            Append(@, Len(st1.recoveries)),
                         !.taskQueue =
                            Append(st.taskQueue, MaybeStartRecoveryTask)]

\* Variant without the doNotStartRecoveries gate.
RestartMasterRecoveryUngated(st, s) ==
    IF s \notin st.serverList.servers THEN st
    ELSE ConstructEnqueueTask(st, s, WillOf(s), MinOpenSegmentIdOf(s))

\* MasterRecoveryManager::restartMasterRecovery; serverList[crashedServerId]
\* throws when the id is not in the list.
RestartMasterRecoveryBody(st, s) ==
    IF s \notin st.serverList.servers \/ doNotStartRecoveries THEN st
    ELSE ConstructEnqueueTask(st, s, WillOf(s), MinOpenSegmentIdOf(s))

\* Variant without the check for an empty tablet list.
StartMasterRecoveryAlwaysRestarts(st, s) ==
    RestartMasterRecoveryBody(SetStatusForServer(st, s, "RECOVERING"), s)

\* MasterRecoveryManager::startMasterRecovery
StartMasterRecoveryBody(st, s) ==
    LET st1 == SetStatusForServer(st, s, "RECOVERING")
    IN  IF TabletsOf(st, s) = {} THEN st1
        ELSE RestartMasterRecoveryBody(st1, s)

StartMasterRecovery(s) ==
    /\ ~aborted
    /\ budget > 0
    /\ Install(StartMasterRecoveryBody(State, s))
    /\ budget' = budget - 1
    /\ lastOp' = Op("startMasterRecovery", "", s)
    /\ UNCHANGED << maxActiveRecoveries, doNotStartRecoveries >>
    /\ UNCHANGED lifeVars
    /\ UNCHANGED pending

RestartMasterRecovery(s) ==
    /\ ~aborted
    /\ budget > 0
    /\ Install(RestartMasterRecoveryBody(State, s))
    /\ budget' = budget - 1
    /\ lastOp' = Op("restartMasterRecovery", "", s)
    /\ UNCHANGED << maxActiveRecoveries, doNotStartRecoveries >>
    /\ UNCHANGED lifeVars
    /\ UNCHANGED pending

\* MasterRecoveryManager::recoveryMasterFinished
RecoveryMasterFinished(rid, master, tablets, ok) ==
    /\ ~aborted
    /\ budget > 0
    /\ Install(Schedule(State,
                        RecoveryMasterFinishedTask(rid, master, tablets, ok)))
    /\ budget' = budget - 1
    /\ lastOp' = Op("recoveryMasterFinished", "", rid)
    /\ UNCHANGED << maxActiveRecoveries, doNotStartRecoveries >>
    /\ UNCHANGED lifeVars
    /\ UNCHANGED pending

\* The server list pushes a membership change into the tracker and calls
\* MasterRecoveryManager::trackerChangesEnqueued.
ServerListChange(batch) ==
    /\ ~aborted
    /\ budget > 0
    /\ Install(TrackerChangesEnqueued(
                   [State EXCEPT !.tracker.changes = @ \o batch]))
    /\ budget' = budget - 1
    /\ lastOp' = Op("trackerChangesEnqueued", "", Len(batch))
    /\ UNCHANGED << maxActiveRecoveries, doNotStartRecoveries >>
    /\ UNCHANGED lifeVars
    /\ UNCHANGED pending

\* The test hook: doNotStartRecoveries is a member written from outside.
SetDoNotStartRecoveries(b) ==
    /\ ~aborted
    /\ budget > 0
    /\ b # doNotStartRecoveries
    /\ doNotStartRecoveries' = b
    /\ budget' = budget - 1
    /\ lastOp' = Op("setDoNotStartRecoveries", "", 0)
    /\ UNCHANGED << serverList, tabletMap, waitingRecoveries,
                    activeRecoveries, maxActiveRecoveries, taskQueue,
                    tracker, recoveries, modifyCount, aborted, liveTasks,
                    pending >>
    /\ UNCHANGED lifeVars

\* ------------------------------------------------------------ worker
\* MasterRecoveryManager::main -> TaskQueue::performTasksUntilHalt: one
\* action per kind of task at the head of the queue.
HeadIs(kind) ==
    /\ ~aborted
    /\ taskQueue # << >>
    /\ Head(taskQueue).kind = kind

PerformApplyTrackerChanges ==
    /\ HeadIs("ApplyTrackerChangesTask")
    /\ Install(ApplyTrackerChangesBody(Pop(State)))
    /\ lastOp' = Op("ApplyTrackerChangesTask", "", 0)
    /\ UNCHANGED << maxActiveRecoveries, doNotStartRecoveries, budget >>

PerformMaybeStartRecovery ==
    /\ HeadIs("MaybeStartRecoveryTask")
    /\ Install(MaybeStartRecoveryBody(Pop(State)))
    /\ lastOp' = Op("MaybeStartRecoveryTask", "", 0)
    /\ UNCHANGED << maxActiveRecoveries, doNotStartRecoveries, budget >>

PerformEnqueueMasterRecovery ==
    /\ HeadIs("EnqueueMasterRecoveryTask")
    /\ Install(EnqueueMasterRecoveryBody(Pop(State), Head(taskQueue)))
    /\ lastOp' = Op("EnqueueMasterRecoveryTask", "", Head(taskQueue).recoveryId)
    /\ UNCHANGED << maxActiveRecoveries, doNotStartRecoveries, budget >>

PerformRecoveryMasterFinished ==
    /\ HeadIs("RecoveryMasterFinishedTask")
    /\ LET t == Head(taskQueue)
           st == RecoveryMasterFinishedBody(Pop(State), t)
       IN  /\ Install(st)
           /\ lastOp' = OpTask("RecoveryMasterFinishedTask",
                           IF t.recoveryId \notin activeRecoveries
                           THEN "unknown"
                           ELSE IF st.aborted THEN "died"
                           ELSE IF t.successful THEN "applied"
                           ELSE "failed", t)
    /\ UNCHANGED << maxActiveRecoveries, doNotStartRecoveries, budget >>

\* Recovery::performTask
PerformRecovery ==
    /\ HeadIs("Recovery")
    /\ LET t == Head(taskQueue)
           r == t.recoveryId
           st == PopRecovery(State, r)
       IN  \/ /\ recoveries[r].status = "START"
              /\ \E m \in Assignments(st, r) :
                    /\ Install(StartRecovery(st, r, m))
                    /\ budget' =
                         IF m = NoMasters(st, r) /\ DOMAIN m # {}
                         THEN budget - 1
                         ELSE budget
              /\ lastOp' = Op("Recovery", "start", r)
           \/ /\ recoveries[r].status = "BROADCAST"
              /\ recoveries[r].cleanup < MaxCleanup
              /\ Install(CleanupRecovery(st, r))
              /\ lastOp' = Op("Recovery", "cleanup", r)
              /\ UNCHANGED budget
           \/ /\ recoveries[r].status = "BROADCAST"
              /\ Install(DestroyAndFreeRecovery(st, r))
              /\ lastOp' = Op("Recovery", "free", r)
              /\ UNCHANGED budget
    /\ UNCHANGED << maxActiveRecoveries, doNotStartRecoveries >>

\* ------------------------------------------------------- start and halt
\* Variant of start() that constructs a thread whether or not one exists.
StartLaunchesAlways == TRUE

\* start(): if (!thread)
StartLaunches == ~thread

\* MasterRecoveryManager::start
Start ==
    /\ ~aborted
    /\ budget > 0
    /\ ~joining
    /\ IF StartLaunches
       THEN /\ thread' = TRUE
            /\ worker' = "idle"
            /\ workers' = workers + 1
            /\ lastOp' = Op("start", "launched", 0)
       ELSE /\ UNCHANGED << thread, worker, workers >>
            /\ lastOp' = Op("start", "noop", 0)
    /\ budget' = budget - 1
    /\ UNCHANGED << serverList, tabletMap, waitingRecoveries,
                    activeRecoveries, maxActiveRecoveries, taskQueue,
                    tracker, doNotStartRecoveries, recoveries, modifyCount,
                    aborted, halted, joining, liveTasks,
                    pending >>

\* Variant of halt() that never waits for the worker.
HaltJoinsNever == FALSE

\* halt(): if (thread) thread->join()
HaltJoins == thread

\* MasterRecoveryManager::halt up to the point where it either waits in
\* join() or, with no thread to join, returns.
HaltCall ==
    /\ ~aborted
    /\ budget > 0
    /\ ~joining
    /\ halted' = TRUE
    /\ IF HaltJoins
       THEN /\ joining' = TRUE
            /\ thread' = thread
            /\ lastOp' = Op("halt", "joining", 0)
       ELSE /\ joining' = FALSE
            /\ thread' = FALSE
            /\ lastOp' = Op("halt", "returned", 0)
    /\ budget' = budget - 1
    /\ UNCHANGED << serverList, tabletMap, waitingRecoveries,
                    activeRecoveries, maxActiveRecoveries, taskQueue,
                    tracker, doNotStartRecoveries, recoveries, modifyCount,
                    aborted, worker, workers, liveTasks,
                    pending >>

\* MasterRecoveryManager::halt from the return of join(): the worker has
\* left main(), the thread object is destroyed and halt() returns.
HaltReturn ==
    /\ ~aborted
    /\ joining
    /\ worker = "returned"
    /\ joining' = FALSE
    /\ thread' = FALSE
    /\ worker' = "none"
    /\ workers' = workers - 1
    /\ lastOp' = Op("halt", "returned", 0)
    /\ UNCHANGED << serverList, tabletMap, waitingRecoveries,
                    activeRecoveries, maxActiveRecoveries, taskQueue,
                    tracker, doNotStartRecoveries, recoveries, modifyCount,
                    aborted, budget, halted, liveTasks,
                    pending >>

\* TaskQueue::performTasksUntilHalt takes the next task only while the halt
\* flag is down.
Dispatching == worker = "idle" /\ ~halted

\* A task taken and run to its end in one step.
Atomic(PerformTask) ==
    /\ Dispatching
    /\ PerformTask
    /\ UNCHANGED lifeVars
    /\ UNCHANGED pending

\* A task taken and run; the worker is inside performTask until EndTask.
Begin(PerformTask) ==
    /\ Dispatching
    /\ PerformTask
    /\ worker' = "busy"
    /\ UNCHANGED << thread, workers, halted, joining, pending >>

\* performTask returns to the loop of performTasksUntilHalt.
EndTask ==
    /\ ~aborted
    /\ worker = "busy"
    /\ worker' = "idle"
    /\ lastOp' = Op("taskDone", "", 0)
    /\ UNCHANGED << serverList, tabletMap, waitingRecoveries,
                    activeRecoveries, maxActiveRecoveries, taskQueue,
                    tracker, doNotStartRecoveries, recoveries, modifyCount,
                    aborted, budget, thread, workers, halted, joining,
                    liveTasks, pending >>

\* performTasksUntilHalt sees the halt flag and main() returns.
MainReturns ==
    /\ ~aborted
    /\ worker = "idle"
    /\ halted
    /\ worker' = "returned"
    /\ lastOp' = Op("mainReturned", "", 0)
    /\ UNCHANGED << serverList, tabletMap, waitingRecoveries,
                    activeRecoveries, maxActiveRecoveries, taskQueue,
                    tracker, doNotStartRecoveries, recoveries, modifyCount,
                    aborted, budget, thread, workers, halted, joining,
                    liveTasks, pending >>

\* Recovery ids a completion report may name: the id may be one of a
\* Recovery that is waiting, active, freed or not constructed yet.
ReportIds == {1, 2}

Next ==
    \/ \E s \in CrashableServers : StartMasterRecovery(s)
    \/ \E s \in CrashableServers : RestartMasterRecovery(s)
    \/ \E rid \in ReportIds, rep \in ReportChoices :
          RecoveryMasterFinished(rid, rep.master, rep.tablets, rep.ok)
    \/ \E batch \in ChangeBatches : ServerListChange(batch)
    \/ \E b \in BOOLEAN : SetDoNotStartRecoveries(b)
    \/ Atomic(PerformApplyTrackerChanges)
    \/ Atomic(PerformMaybeStartRecovery)
    \/ Atomic(PerformEnqueueMasterRecovery)
    \/ Atomic(PerformRecoveryMasterFinished)
    \/ Atomic(PerformRecovery)

Spec == Init /\ [][Next]_vars

\* The manager from construction on, with start() and halt() called from
\* outside and the worker inside a task between its beginning and its end.
LifeNext ==
    \/ Start
    \/ HaltCall
    \/ HaltReturn
    \/ \E s \in CrashableServers : StartMasterRecovery(s)
    \/ \E s \in CrashableServers : RestartMasterRecovery(s)
    \/ \E rid \in ReportIds, rep \in ReportChoices :
          RecoveryMasterFinished(rid, rep.master, rep.tablets, rep.ok)
    \/ \E batch \in ChangeBatches : ServerListChange(batch)
    \/ \E b \in BOOLEAN : SetDoNotStartRecoveries(b)
    \/ Begin(PerformApplyTrackerChanges)
    \/ Begin(PerformMaybeStartRecovery)
    \/ Begin(PerformEnqueueMasterRecovery)
    \/ Begin(PerformRecoveryMasterFinished)
    \/ Begin(PerformRecovery)
    \/ EndTask
    \/ MainReturns

LifeSpec == LifeInit /\ [][LifeNext]_vars

\* The manager fed only with crashed servers to recover: recoveries are
\* enqueued, admitted, concluded (a Recovery that cannot start fails and
\* is retried) and freed; no completion report and no membership event
\* arrives from outside.
AdmissionNext ==
    \/ \E s \in CrashableServers : StartMasterRecovery(s)
    \/ \E s \in CrashableServers : RestartMasterRecovery(s)
    \/ Atomic(PerformApplyTrackerChanges)
    \/ Atomic(PerformMaybeStartRecovery)
    \/ Atomic(PerformEnqueueMasterRecovery)
    \/ Atomic(PerformRecovery)

AdmissionSpec == AdmissionInit /\ [][AdmissionNext]_vars

\* ----------------------------------- trackerChangesEnqueued, step by step
\* The server list's thread inside trackerChangesEnqueued, after the new
\* expression: the changes are in the tracker, the task is constructed and
\* its constructor has scheduled it; the caller's schedule() is yet to come.
TrackerChangesConstructed(batch) ==
    /\ ~aborted
    /\ budget > 0
    /\ pending = NoCall
    /\ LET st == ConstructApplyTrackerChangesTask(
                     [State EXCEPT !.tracker.changes = @ \o batch])
       IN  /\ Install(st)
           /\ pending' = Len(st.taskQueue)
    /\ budget' = budget - 1
    /\ lastOp' = Op("trackerChangesEnqueued", "constructed", Len(batch))
    /\ UNCHANGED << maxActiveRecoveries, doNotStartRecoveries >>
    /\ UNCHANGED lifeVars

\* The caller's ->schedule() on the task it constructed: the task is still
\* scheduled unless the worker has taken it off the queue in between.
TrackerChangesScheduled ==
    /\ ~aborted
    /\ pending # NoCall
    /\ Install(TaskQueueSchedule(State, ApplyTrackerChangesTask, pending > 0))
    /\ pending' = NoCall
    /\ lastOp' = Op("trackerChangesEnqueued", "scheduled", 0)
    /\ UNCHANGED << maxActiveRecoveries, doNotStartRecoveries, budget >>
    /\ UNCHANGED lifeVars

\* The worker takes the task at the head of the queue and runs it; the task
\* a caller has constructed moves one place towards the head.
Taken(PerformTask) ==
    /\ Dispatching
    /\ PerformTask
    /\ pending' = IF pending > 0 THEN pending - 1 ELSE pending
    /\ UNCHANGED lifeVars

\* The manager in service with the server list pushing membership changes
\* from a thread of its own.
TrackerNext ==
    \/ \E s \in CrashableServers : StartMasterRecovery(s)
    \/ \E rid \in ReportIds, rep \in ReportChoices :
          RecoveryMasterFinished(rid, rep.master, rep.tablets, rep.ok)
    \/ \E batch \in ChangeBatches : TrackerChangesConstructed(batch)
    \/ TrackerChangesScheduled
    \/ Taken(PerformApplyTrackerChanges)
    \/ Taken(PerformMaybeStartRecovery)
    \/ Taken(PerformEnqueueMasterRecovery)
    \/ Taken(PerformRecoveryMasterFinished)
    \/ Taken(PerformRecovery)

TrackerSpec == Init /\ [][TrackerNext]_vars

\* ------------------------------------------------------------ properties
Waiting == Range(waitingRecoveries)

CrashedServerOf(r) == recoveries[r].crashedServerId

\* C1: at every moment at most one Recovery in activeRecoveries has a
\* given crashedServerId, whatever was enqueued, admitted, requeued or
\* freed before.
C1_OneActivePerCrashedServer ==
    \A a, b \in activeRecoveries :
        CrashedServerOf(a) = CrashedServerOf(b) => a = b

\* An admission pass has just run with a free slot left, and a Recovery
\* still waits because its crashed server already has an active Recovery.
C1_Witness ==
    /\ lastOp.op = "MaybeStartRecoveryTask"
    /\ Cardinality(activeRecoveries) < maxActiveRecoveries
    /\ \E w \in Waiting, a \in activeRecoveries :
          CrashedServerOf(w) = CrashedServerOf(a)

\* C2: between task executions activeRecoveries never holds more than
\* maxActiveRecoveries entries, for every cap explored.
C2_ActiveWithinCap ==
    Cardinality(activeRecoveries) <= maxActiveRecoveries

\* An admission pass has just filled the last slot and left a Recovery for
\* another crashed server waiting.
C2_Witness ==
    /\ lastOp.op = "MaybeStartRecoveryTask"
    /\ Cardinality(activeRecoveries) = maxActiveRecoveries
    /\ \E w \in Waiting :
          \A a \in activeRecoveries : CrashedServerOf(w) # CrashedServerOf(a)

\* C3: every Recovery pushed onto waitingRecoveries is eventually admitted
\* when the queue is never halted, the worker runs every scheduled task and
\* every admitted Recovery calls recoveryFinished and then
\* destroyAndFreeRecovery.  Once the task queue is empty and every admitted
\* Recovery has been freed nothing is left that could admit a Recovery, so
\* the claim requires that no Recovery waits in such a state.
C3_NoRecoveryLeftWaiting ==
    (taskQueue = << >> /\ activeRecoveries = {} /\ ~aborted)
        => waitingRecoveries = << >>

Occurrences(seq, x) == Cardinality({ i \in DOMAIN seq : seq[i] = x })

\* C4: an admission pass neither drops nor duplicates a Recovery: each
\* Recovery that waited before the pass is afterwards either once in
\* waitingRecoveries or in activeRecoveries, never both; one whose crashed
\* server already had an active Recovery stays waiting; and the pass
\* brings in nothing else.
C4_AdmissionKeepsEveryRecovery ==
    [][ lastOp'.op = "MaybeStartRecoveryTask" =>
          /\ \A r \in Waiting :
                \/ /\ Occurrences(waitingRecoveries', r) = 1
                   /\ r \notin activeRecoveries'
                \/ /\ Occurrences(waitingRecoveries', r) = 0
                   /\ r \in activeRecoveries'
          /\ \A r \in Waiting :
                (\E a \in activeRecoveries :
                     CrashedServerOf(a) = CrashedServerOf(r))
                => /\ Occurrences(waitingRecoveries', r) = 1
                   /\ r \notin activeRecoveries'
          /\ Range(waitingRecoveries') \subseteq Waiting
          /\ activeRecoveries \subseteq activeRecoveries'
          /\ activeRecoveries' \subseteq activeRecoveries \cup Waiting
      ]_vars

\* An admission pass has just admitted a Recovery (its first task is still
\* scheduled) and deferred another one for the same crashed server.
C4_Witness ==
    /\ lastOp.op = "MaybeStartRecoveryTask"
    /\ \E a \in activeRecoveries, w \in Waiting :
          /\ recoveries[a].status = "START"
          /\ recoveries[a].scheduled
          /\ CrashedServerOf(a) = CrashedServerOf(w)

RanReport(did) ==
    /\ lastOp.op = "RecoveryMasterFinishedTask"
    /\ lastOp.did = did

ReportRun == lastOp.task[1]

\* C5: after a RecoveryMasterFinished task with successful = true has run
\* for an active recoveryId, every tablet it lists is NORMAL, owned by the
\* server id of its entry, at the entry's log head position, and its owner
\* has been recorded exactly once in the life of that recovery.
C5_OwnerRecordedExactlyOnce ==
    RanReport("applied") =>
        \A i \in DOMAIN ReportRun.recoveredTablets :
            LET e == ReportRun.recoveredTablets[i]
            IN  /\ tabletMap[e.key] =
                     [owner |-> e.server_id, status |-> "NORMAL",
                      head |-> e.head]
                /\ modifyCount[ReportRun.recoveryId][e.key] = 1

\* C6: a RecoveryMasterFinished task with successful = false leaves the
\* tablet map as it was, and if its recoveryId is active the Recovery is
\* notified with recoveryMasterFinished(recoveryMasterId, false).
C6_FailedReportKeepsTabletMap ==
    [][ ( /\ lastOp'.op = "RecoveryMasterFinishedTask"
          /\ ~lastOp'.task[1].successful )
        => /\ tabletMap' = tabletMap
           /\ lastOp'.did \in {"failed", "unknown"}
           /\ lastOp'.did = "failed" =>
                LET t == lastOp'.task[1]
                IN  recoveries'[t.recoveryId].notifications =
                        Append(recoveries[t.recoveryId].notifications,
                               << t.recoveryMasterId, FALSE >>)
      ]_vars

\* A failed report that lists tablets has just run for an active Recovery:
\* the listed tablets are still RECOVERING and owned by the crashed server.
C6_Witness ==
    /\ RanReport("failed")
    /\ ReportRun.recoveredTablets # << >>
    /\ \A i \in DOMAIN ReportRun.recoveredTablets :
          LET k == ReportRun.recoveredTablets[i].key
          IN  /\ tabletMap[k].status = "RECOVERING"
              /\ tabletMap[k].owner = CrashedServerOf(ReportRun.recoveryId)
    /\ recoveries[ReportRun.recoveryId].notifications # << >>

\* C7: a completion report whose recoveryId is not in activeRecoveries
\* changes nothing, even with successful = true: tablet map, server list,
\* waitingRecoveries, activeRecoveries, the recoveries and the tracker stay
\* as they were, no Recovery is notified, and the worker goes on with the
\* rest of the queue.
C7_UnknownReportChangesNothing ==
    [][ ( /\ lastOp'.op = "RecoveryMasterFinishedTask"
          /\ lastOp'.did = "unknown" )
        => /\ tabletMap' = tabletMap
           /\ serverList' = serverList
           /\ waitingRecoveries' = waitingRecoveries
           /\ activeRecoveries' = activeRecoveries
           /\ recoveries' = recoveries
           /\ tracker' = tracker
           /\ taskQueue' = Tail(taskQueue)
           /\ ~aborted'
      ]_vars

\* A successful report listing tablets has just been dropped because the
\* Recovery it names had already been freed.
C7_Witness ==
    /\ RanReport("unknown")
    /\ ReportRun.successful
    /\ ReportRun.recoveredTablets # << >>
    /\ ReportRun.recoveryId \in DOMAIN recoveries
    /\ recoveries[ReportRun.recoveryId].status = "DONE"
    /\ ~aborted

\* recoveryFinished is called on r in this step.
FinishedNow(r) ==
    recoveries'[r].finishedCalls = recoveries[r].finishedCalls + 1

SameParameters(a, b) ==
    /\ a.crashedServerId = b.crashedServerId
    /\ a.will = b.will
    /\ a.minOpenSegmentId = b.minOpenSegmentId

\* C8: each recoveryFinished call on a Recovery that was not completely
\* successful constructs exactly one new Recovery, with the crashed server
\* id, will and minOpenSegmentId of the failed one and an id no earlier
\* Recovery has, and schedules one EnqueueMasterRecovery task for it; that
\* task pushes it onto waitingRecoveries when it runs, so every Recovery is
\* pushed exactly once.
C8_FailedRecoveryRequeuedOnce ==
    [][ /\ \A r \in DOMAIN recoveries :
              (FinishedNow(r) /\ ~WasCompletelySuccessful(recoveries'[r]))
              => LET n == Len(recoveries) + 1
                 IN  /\ Len(recoveries') = n
                     /\ SameParameters(recoveries'[n], recoveries[r])
                     /\ recoveries'[n].status = "START"
                     /\ Occurrences(taskQueue',
                                    EnqueueMasterRecoveryTask(n)) = 1
                     /\ n \notin Range(waitingRecoveries')
        /\ lastOp'.op = "EnqueueMasterRecoveryTask"
              => waitingRecoveries' =
                     Append(waitingRecoveries, lastOp'.id)
        /\ \A n \in DOMAIN recoveries' :
              Occurrences(waitingRecoveries', n)
              + Occurrences(taskQueue', EnqueueMasterRecoveryTask(n))
              + (IF n \in activeRecoveries'
                    \/ recoveries'[n].status # "START" THEN 1 ELSE 0) = 1
      ]_vars

\* Recovery 1 has finished without complete success and is still active;
\* the Recovery made for its retry has just been pushed and waits.
C8_Witness ==
    /\ lastOp = Op("EnqueueMasterRecoveryTask", "", 2)
    /\ Len(recoveries) = 2
    /\ recoveries[1].finishedCalls = 1
    /\ ~WasCompletelySuccessful(recoveries[1])
    /\ SameParameters(recoveries[2], recoveries[1])
    /\ waitingRecoveries = << 2 >>

\* C9: recoveryFinished removes the crashed server from the server list,
\* with one version increment and one membership update, exactly when the
\* Recovery was completely successful; otherwise it leaves the server list
\* as it was, and nothing else the manager does changes the server list.
C9_ServerListOnlyOnSuccess ==
    [][ /\ \A r \in DOMAIN recoveries :
              FinishedNow(r) =>
                  IF WasCompletelySuccessful(recoveries'[r])
                  THEN serverList' =
                         [servers |-> serverList.servers
                                        \ {CrashedServerOf(r)},
                          version |-> serverList.version + 1,
                          updates |-> serverList.updates + 1]
                  ELSE serverList' = serverList
        /\ serverList' # serverList
              => \E r \in DOMAIN recoveries :
                    /\ FinishedNow(r)
                    /\ WasCompletelySuccessful(recoveries'[r])
      ]_vars

\* A successful report has just completed a Recovery with partitions, and
\* its crashed server is gone from the server list.
C9_Witness ==
    /\ RanReport("applied")
    /\ recoveries[ReportRun.recoveryId].finishedCalls = 1
    /\ DOMAIN recoveries[ReportRun.recoveryId].verdict # {}
    /\ WasCompletelySuccessful(recoveries[ReportRun.recoveryId])
    /\ CrashedServerOf(ReportRun.recoveryId) \notin serverList.servers
    /\ serverList.version = 1
    /\ serverList.updates = 1

\* r has called recoveryFinished and has not been freed yet.
FinishedNotFreed(r) ==
    /\ recoveries[r].finishedCalls > 0
    /\ recoveries[r].status # "DONE"

\* C10: recoveryFinished leaves activeRecoveries as it was, an entry leaves
\* activeRecoveries only in the task in which its Recovery calls
\* destroyAndFreeRecovery, and from recoveryFinished until then the
\* Recovery keeps its slot: it is active, it counts against
\* maxActiveRecoveries, and no other Recovery for its crashed server is
\* active.
C10_SlotKeptUntilFreed ==
    [][ /\ \A r \in DOMAIN recoveries :
              FinishedNow(r) => activeRecoveries' = activeRecoveries
        /\ \A r \in activeRecoveries \ activeRecoveries' :
              lastOp' = Op("Recovery", "free", r)
        /\ \A r \in DOMAIN recoveries :
              FinishedNotFreed(r) =>
                  /\ r \in activeRecoveries
                  /\ Cardinality(activeRecoveries) <= maxActiveRecoveries
                  /\ \A o \in activeRecoveries :
                        CrashedServerOf(o) = CrashedServerOf(r) => o = r
      ]_vars

\* An admission pass has just run with a free slot while a finished, not
\* yet freed Recovery holds its slot: the Recovery waiting for the same
\* crashed server was deferred.
C10_Witness ==
    /\ lastOp.op = "MaybeStartRecoveryTask"
    /\ Cardinality(activeRecoveries) < maxActiveRecoveries
    /\ \E r \in activeRecoveries, w \in Waiting :
          /\ FinishedNotFreed(r)
          /\ CrashedServerOf(w) = CrashedServerOf(r)

\* Tablets owned by server s before the step.
OwnedBy(s) == { k \in DOMAIN tabletMap : tabletMap[k].owner = s }

\* The step appended one EnqueueMasterRecovery task carrying a newly
\* constructed Recovery for server s.
EnqueuedFor(s) ==
    LET n == Len(recoveries) + 1
    IN  /\ Len(recoveries') = n
        /\ recoveries'[n].crashedServerId = s
        /\ taskQueue' = Append(taskQueue, EnqueueMasterRecoveryTask(n))

\* The step constructed no Recovery and scheduled nothing.
NothingEnqueued ==
    /\ recoveries' = recoveries
    /\ taskQueue' = taskQueue

\* C11 (as stated): startMasterRecovery(S) marks every tablet owned by S
\* as RECOVERING and enqueues a recovery for S if and only if S owned at
\* least one tablet; when S owned none, no Enqueue task is created and
\* waitingRecoveries, activeRecoveries and the tablet map are unchanged.
C11_EnqueuesIffTabletsOwned ==
    [][ lastOp'.op = "startMasterRecovery" =>
          LET s == lastOp'.id
          IN  /\ \A k \in OwnedBy(s) : tabletMap'[k].status = "RECOVERING"
              /\ EnqueuedFor(s) <=> OwnedBy(s) # {}
              /\ OwnedBy(s) = {} =>
                    /\ NothingEnqueued
                    /\ waitingRecoveries' = waitingRecoveries
                    /\ activeRecoveries' = activeRecoveries
                    /\ tabletMap' = tabletMap
      ]_vars

\* C11 (amended): startMasterRecovery(S) marks every tablet owned by S as
\* RECOVERING and leaves every other tablet, waitingRecoveries and
\* activeRecoveries as they were; it creates one Enqueue task with a new
\* Recovery for S if and only if S owned at least one tablet, S is in the
\* server list and doNotStartRecoveries is not set, and otherwise creates
\* no task and no Recovery; when S owned no tablets the tablet map is
\* unchanged.
C11_EnqueuesIffTabletsOwnedAndAllowed ==
    [][ lastOp'.op = "startMasterRecovery" =>
          LET s == lastOp'.id
          IN  /\ \A k \in DOMAIN tabletMap :
                    tabletMap'[k] =
                        IF k \in OwnedBy(s)
                        THEN [tabletMap[k] EXCEPT !.status = "RECOVERING"]
                        ELSE tabletMap[k]
              /\ waitingRecoveries' = waitingRecoveries
              /\ activeRecoveries' = activeRecoveries
              /\ IF /\ OwnedBy(s) # {}
                    /\ s \in serverList.servers
                    /\ ~doNotStartRecoveries
                 THEN EnqueuedFor(s)
                 ELSE NothingEnqueued
              /\ OwnedBy(s) = {} => tabletMap' = tabletMap
      ]_vars

\* startMasterRecovery has just run for a server that owns tablets: they
\* are RECOVERING and the Enqueue task for its new Recovery is the last
\* task scheduled.
C11_Witness ==
    /\ lastOp.op = "startMasterRecovery"
    /\ OwnedBy(lastOp.id) # {}
    /\ \A k \in OwnedBy(lastOp.id) : tabletMap[k].status = "RECOVERING"
    /\ taskQueue # << >>
    /\ taskQueue[Len(taskQueue)] =
           EnqueueMasterRecoveryTask(Len(recoveries))
    /\ CrashedServerOf(Len(recoveries)) = lastOp.id

\* C12 (as stated): while doNotStartRecoveries is set no new recovery is
\* enqueued: waitingRecoveries never gains an entry, whether the enqueue
\* would come from startMasterRecovery/restartMasterRecovery or from the
\* requeue of a not-completely-successful recovery.
C12_NothingEnqueuedWhileSuppressed ==
    [][ doNotStartRecoveries =>
          /\ Range(waitingRecoveries') \subseteq Waiting
          /\ Len(recoveries') = Len(recoveries)
      ]_vars

\* C12 (amended): while doNotStartRecoveries is set, startMasterRecovery
\* and restartMasterRecovery construct no Recovery and schedule no task,
\* and leave waitingRecoveries as it was; the only Recovery constructed
\* while the flag is set is the one recoveryFinished makes for the retry of
\* a not-completely-successful recovery, and waitingRecoveries gains
\* entries only from EnqueueMasterRecovery tasks (those scheduled before
\* the flag was set, and those of retries).
C12_EntryPointsGatedOnly ==
    [][ doNotStartRecoveries =>
          /\ lastOp'.op \in {"startMasterRecovery", "restartMasterRecovery"}
                => /\ NothingEnqueued
                   /\ waitingRecoveries' = waitingRecoveries
          /\ Len(recoveries') # Len(recoveries)
                => \E r \in DOMAIN recoveries :
                      /\ FinishedNow(r)
                      /\ ~WasCompletelySuccessful(recoveries'[r])
                      /\ Len(recoveries') = Len(recoveries) + 1
          /\ ~(Range(waitingRecoveries') \subseteq Waiting)
                => lastOp'.op = "EnqueueMasterRecoveryTask"
      ]_vars

\* With the flag set, restartMasterRecovery has just returned for a server
\* in the server list without constructing a Recovery, while an earlier
\* Recovery (enqueued before the flag was set) is under way.
C12_Witness ==
    /\ doNotStartRecoveries
    /\ lastOp.op = "restartMasterRecovery"
    /\ lastOp.id \in serverList.servers
    /\ Len(recoveries) = 1
    /\ \A r \in DOMAIN recoveries : CrashedServerOf(r) # lastOp.id

EntryPoints ==
    {"startMasterRecovery", "restartMasterRecovery",
     "recoveryMasterFinished", "trackerChangesEnqueued"}

TaskKinds ==
    {"ApplyTrackerChangesTask", "MaybeStartRecoveryTask",
     "EnqueueMasterRecoveryTask", "RecoveryMasterFinishedTask", "Recovery"}

\* C13: waitingRecoveries and activeRecoveries change only in a step that
\* executes a task; a call of startMasterRecovery, restartMasterRecovery,
\* recoveryMasterFinished or trackerChangesEnqueued, at any point between
\* task executions, leaves both collections (and the tracker slots) as they
\* were and at most appends one task to the task queue.
C13_CollectionsChangeOnlyInTasks ==
    [][ /\ ( \/ waitingRecoveries' # waitingRecoveries
             \/ activeRecoveries' # activeRecoveries )
           => /\ lastOp'.op \in TaskKinds
              /\ taskQueue # << >>
              /\ Head(taskQueue).kind = lastOp'.op
        /\ lastOp'.op \in EntryPoints
           => /\ waitingRecoveries' = waitingRecoveries
              /\ activeRecoveries' = activeRecoveries
              /\ tracker'.slot = tracker.slot
              /\ \/ taskQueue' = taskQueue
                 \/ /\ Len(taskQueue') = Len(taskQueue) + 1
                    /\ SubSeq(taskQueue', 1, Len(taskQueue)) = taskQueue
        /\ lastOp'.op \in {"recoveryMasterFinished", "trackerChangesEnqueued"}
           => /\ Len(taskQueue') = Len(taskQueue) + 1
              /\ taskQueue'[Len(taskQueue')].kind =
                    IF lastOp'.op = "recoveryMasterFinished"
                    THEN "RecoveryMasterFinishedTask"
                    ELSE "ApplyTrackerChangesTask"
      ]_vars

\* A completion report has just been handed in while one Recovery is
\* active and another waits: both collections are as before and the
\* report sits at the back of the task queue behind an unfinished task.
C13_Witness ==
    /\ lastOp.op = "recoveryMasterFinished"
    /\ waitingRecoveries # << >>
    /\ activeRecoveries # {}
    /\ Len(taskQueue) >= 2
    /\ taskQueue[Len(taskQueue)].kind = "RecoveryMasterFinishedTask"
    /\ taskQueue[Len(taskQueue)].recoveryId = lastOp.id

\* Positions in the tracker's buffer holding a SERVER_CRASHED or
\* SERVER_REMOVED event for a server whose slot points to a Recovery.
ClaimedEvents ==
    { i \in DOMAIN tracker.changes :
        /\ tracker.changes[i].event \in {"SERVER_CRASHED", "SERVER_REMOVED"}
        /\ tracker.slot[tracker.changes[i].server] # NoRecovery }

\* C14: every SERVER_CRASHED or SERVER_REMOVED event buffered for a server
\* whose tracker slot points to a Recovery is eventually delivered to that
\* Recovery as recoveryMasterFinished(server, false), whatever is buffered
\* before it, as long as the worker keeps running.  Once the worker has
\* run every scheduled task nothing is left that could deliver an event,
\* so the claim requires that no such event is still buffered then.
C14_ClaimedEventsDelivered ==
    (taskQueue = << >> /\ ~aborted) => ClaimedEvents = {}

\* The completion reports for recoveryId rid that are scheduled and not
\* yet processed, oldest call first.
ReportsFor(queue, rid) ==
    SelectSeq(queue, LAMBDA t : /\ t.kind = "RecoveryMasterFinishedTask"
                                /\ t.recoveryId = rid)

Freed(rid) ==
    /\ rid \in DOMAIN recoveries
    /\ recoveries[rid].status = "DONE"

\* C15: completion reports for the same recoveryId reach the Recovery in
\* the order in which recoveryMasterFinished was called (a call puts its
\* report behind the earlier ones, the report processed is always the
\* oldest one outstanding, and processing it for an active Recovery hands
\* it to that Recovery), and a report processed after the Recovery has
\* been freed is dropped: nothing but the task queue changes.
C15_ReportsInCallOrder ==
    [][ \A rid \in ReportIds :
          LET before == ReportsFor(taskQueue, rid)
              after == ReportsFor(taskQueue', rid)
          IN  IF lastOp'.op = "recoveryMasterFinished" /\ lastOp'.id = rid
              THEN /\ after = Append(before, taskQueue'[Len(taskQueue')])
                   /\ taskQueue' = Append(taskQueue, after[Len(after)])
              ELSE IF lastOp'.op = "RecoveryMasterFinishedTask"
                      /\ lastOp'.id = rid
              THEN /\ before # << >>
                   /\ lastOp'.task[1] = Head(before)
                   /\ after = Tail(before)
                   /\ lastOp'.did \in {"applied", "failed"} =>
                        recoveries'[rid].notifications =
                            Append(recoveries[rid].notifications,
                                   << Head(before).recoveryMasterId,
                                      Head(before).successful >>)
                   /\ Freed(rid) =>
                        /\ lastOp'.did = "unknown"
                        /\ taskQueue' = Tail(taskQueue)
                        /\ UNCHANGED << serverList, tabletMap,
                                        waitingRecoveries, activeRecoveries,
                                        tracker, recoveries, aborted >>
              ELSE after = before
      ]_vars

\* Two different reports were handed in for the same active Recovery: the
\* first one has just been delivered and is the Recovery's only
\* notification, the second is still scheduled.
C15_Witness ==
    /\ RanReport("applied")
    /\ recoveries[ReportRun.recoveryId].notifications =
           << << ReportRun.recoveryMasterId, TRUE >> >>
    /\ \E t \in Range(ReportsFor(taskQueue, ReportRun.recoveryId)) :
           t.recoveryMasterId # ReportRun.recoveryMasterId

\* No task begins in this step and what is queued stays queued, in order.
NoTaskBegins ==
    /\ lastOp'.op \notin TaskKinds
    /\ Len(taskQueue') >= Len(taskQueue)
    /\ SubSeq(taskQueue', 1, Len(taskQueue)) = taskQueue

HaltReturned == halted /\ ~joining

\* C16: tasks scheduled while no worker exists (before start()) are kept
\* and not executed; once halt() has returned no task begins execution and
\* the tasks still queued stay queued; and when halt() returns no worker
\* is left inside a task or in the dispatch loop, so the task that was
\* executing when halt() was called has run to its end.
C16_NoTaskOutsideStartAndHalt ==
    [][ /\ worker = "none" /\ worker' = "none" => NoTaskBegins
        /\ HaltReturned => NoTaskBegins
        /\ lastOp' = Op("halt", "returned", 0) =>
              /\ worker' = "none"
              /\ workers' = 0
              /\ ~thread'
      ]_vars

\* halt() has just returned from joining the worker, which had executed at
\* least the Enqueue task of a recovery scheduled earlier; the tasks
\* scheduled after that are still queued.
C16_Witness ==
    /\ lastOp = Op("halt", "returned", 0)
    /\ worker = "none"
    /\ waitingRecoveries # << >>
    /\ taskQueue # << >>
    /\ Head(taskQueue).kind = "MaybeStartRecoveryTask"

\* C17: start() and halt() are idempotent.  At most one worker thread
\* exists at a time; start() on a started instance launches no second
\* worker and changes nothing; halt() on an instance without a thread
\* (halted or never started) leaves thread, worker and everything the
\* manager holds as they were; and it has no later effect either: a worker
\* launched by start() leaves main() only while a halt() call is waiting
\* to join it, so it still runs the queued tasks.
C17_StartHaltIdempotent ==
    [][ /\ workers' <= 1
        /\ (lastOp'.op = "start" /\ thread) =>
              /\ lastOp'.did = "noop"
              /\ UNCHANGED lifeVars
        /\ (lastOp'.op = "halt" /\ ~thread /\ ~joining) =>
              /\ lastOp'.did = "returned"
              /\ UNCHANGED << thread, worker, workers, joining, taskQueue,
                              waitingRecoveries, activeRecoveries,
                              recoveries, tabletMap, serverList, tracker >>
        /\ lastOp'.op = "mainReturned" => joining
      ]_vars

\* C18: every release of an active slot is followed by an admission pass:
\* after destroyAndFreeRecovery has erased a Recovery a MaybeStartRecovery
\* task executes later, so that a Recovery waiting for the slot is
\* admitted: with maxActiveRecoveries = 1 and two recoveries for distinct
\* servers, the second is admitted after the first has completed
\* successfully and been freed.  Right after such a release, with the
\* second Recovery still waiting, that pass is still to come, so the task
\* queue cannot be empty.
C18_AdmissionPassFollowsRelease ==
    ( /\ lastOp.op = "Recovery"
      /\ lastOp.did = "free"
      /\ WasCompletelySuccessful(recoveries[lastOp.id])
      /\ maxActiveRecoveries = 1
      /\ waitingRecoveries # << >>
      /\ \A w \in Waiting : CrashedServerOf(w) # CrashedServerOf(lastOp.id)
      /\ ~aborted )
    => taskQueue # << >>

\* Position of r in waitingRecoveries before the pass.
Pos(r) == CHOOSE i \in DOMAIN waitingRecoveries : waitingRecoveries[i] = r

Admitted == activeRecoveries' \ activeRecoveries

\* The active recoveries at the moment the pass looks at r.
ActiveAt(r) ==
    activeRecoveries \cup { x \in Admitted : Pos(x) < Pos(r) }

\* No Recovery active at the moment the pass looks at r has the crashed
\* server of w.
AdmissibleAt(w, r) ==
    \A a \in ActiveAt(r) : CrashedServerOf(a) # CrashedServerOf(w)

\* C19 (as stated): admission is FIFO: a waiting Recovery is never
\* admitted while a Recovery enqueued earlier (one with a smaller
\* recoveryId: EnqueueMasterRecovery tasks run in the order in which the
\* recoveries were constructed) is still waiting and admissible at that
\* moment; also across passes, after entries were skipped and re-appended.
C19_AdmissionFifo ==
    [][ lastOp'.op = "MaybeStartRecoveryTask" =>
          \A r \in Admitted :
             \A w \in Waiting \ (ActiveAt(r) \cup {r}) :
                ~(w < r /\ AdmissibleAt(w, r))
      ]_vars

\* C19 (amended): within one admission pass the waiting recoveries are
\* looked at in queue order: a Recovery is admitted only if every Recovery
\* ahead of it in the queue was admitted or had its crashed server under
\* recovery at that moment, and the pass leaves entries unexamined only
\* when the cap is reached.  The deferred entries are re-appended behind
\* the unexamined ones, so the queue order is the order of enqueueing only
\* until an entry has been deferred: in a later pass a Recovery enqueued
\* later can be admitted while a deferred, now admissible one still waits.
C19_AdmissionInQueueOrder ==
    [][ lastOp'.op = "MaybeStartRecoveryTask" =>
          /\ \A r \in Admitted :
                /\ r \in Waiting
                /\ AdmissibleAt(r, r)
                /\ \A w \in Waiting :
                      Pos(w) < Pos(r) => w \in Admitted \/ ~AdmissibleAt(w, w)
          /\ \E k \in 0..Len(waitingRecoveries) :
                /\ Admitted \subseteq Range(SubSeq(waitingRecoveries, 1, k))
                /\ \A i \in 1..k :
                      LET x == waitingRecoveries[i]
                      IN  /\ Cardinality(ActiveAt(x)) < maxActiveRecoveries
                          /\ x \in Admitted <=> AdmissibleAt(x, x)
                /\ waitingRecoveries' =
                      SubSeq(waitingRecoveries, k + 1,
                             Len(waitingRecoveries))
                      \o SelectSeq(SubSeq(waitingRecoveries, 1, k),
                                   LAMBDA x : x \notin Admitted)
                /\ k < Len(waitingRecoveries) =>
                      Cardinality(activeRecoveries') = maxActiveRecoveries
      ]_vars

\* An admission pass has just admitted a Recovery (its first task is still
\* scheduled) although one enqueued earlier waits and no active Recovery
\* has that one's crashed server: the earlier one had been deferred and
\* re-appended behind it.
C19_Witness ==
    /\ lastOp.op = "MaybeStartRecoveryTask"
    /\ \E r \in activeRecoveries, w \in Waiting :
          /\ recoveries[r].status = "START"
          /\ recoveries[r].scheduled
          /\ w < r
          /\ \A a \in activeRecoveries :
                CrashedServerOf(a) # CrashedServerOf(w)

\* C20: an ApplyTrackerChanges task drains the tracker until it is empty:
\* when the task has finished no buffered membership change remains, an
\* event for a crashed or removed server that no Recovery claims having
\* been ignored without holding up the events buffered after it.
C20_TrackerDrained ==
    (lastOp.op = "ApplyTrackerChangesTask" /\ ~aborted)
        => tracker.changes = << >>

\* C21: each call of trackerChangesEnqueued results in exactly one
\* execution of an ApplyTrackerChanges task.  The constructor's schedule()
\* adds one queue entry and the caller's schedule() on the same task adds
\* none, whatever the worker does in between.
C21_OneExecutionPerCall ==
    [][ /\ (lastOp'.op = "trackerChangesEnqueued"
             /\ lastOp'.did = "constructed") =>
              taskQueue' = Append(taskQueue, ApplyTrackerChangesTask)
        /\ (lastOp'.op = "trackerChangesEnqueued"
             /\ lastOp'.did = "scheduled") =>
              taskQueue' = taskQueue ]_vars

\* The one-shot tasks on the queue (a Recovery is not one of them).
ScheduledTasks ==
    Cardinality({ i \in DOMAIN taskQueue : taskQueue[i].kind # "Recovery" })

Executing == IF worker = "busy" THEN 1 ELSE 0

\* C22: every task object of the manager destroys itself by the end of its
\* single execution on every path, so while the process runs the live task
\* objects never exceed the tasks that are scheduled or executing.
C22_TasksDestroyThemselves ==
    ~aborted => liveTasks <= ScheduledTasks + Executing

\* The task is a successful completion report for an active Recovery that
\* lists a tablet the tablet map does not hold.
MissingKeyReported(t) ==
    /\ t.kind = "RecoveryMasterFinishedTask"
    /\ t.successful
    /\ t.recoveryId \in activeRecoveries
    /\ \E i \in DOMAIN t.recoveredTablets :
          t.recoveredTablets[i].key \notin DOMAIN tabletMap

\* C23: when the tablet map reports a missing key while a successful
\* completion report is applied, the process aborts: no Recovery is notified
\* of that report, and once the process has aborted no task executes and
\* nothing changes any more.
C23_MissingKeyAborts ==
    [][ /\ (lastOp'.op = "RecoveryMasterFinishedTask"
             /\ MissingKeyReported(Head(taskQueue))) =>
              /\ aborted'
              /\ recoveries' = recoveries
              /\ waitingRecoveries' = waitingRecoveries
              /\ activeRecoveries' = activeRecoveries
              /\ tracker' = tracker
              /\ taskQueue' = Tail(taskQueue)
        /\ aborted => vars' = vars ]_vars

\* The process has aborted on a report with a missing key while the
\* Recovery it named is still without that verdict and a later task is
\* left on the queue.
C23_Witness ==
    /\ aborted
    /\ lastOp.op = "RecoveryMasterFinishedTask"
    /\ lastOp.did = "died"
    /\ taskQueue # << >>
    /\ lastOp.id \in activeRecoveries
    /\ recoveries[lastOp.id].notifications = << >>

\* Every tracker slot that holds a Recovery holds one that is in
\* activeRecoveries: not waiting, not freed.
SlotsHoldActiveRecoveries ==
    \A s \in Servers :
        tracker.slot[s] # NoRecovery =>
            /\ tracker.slot[s] \in activeRecoveries
            /\ tracker.slot[s] \notin Waiting
            /\ recoveries[tracker.slot[s]].status # "DONE"

\* C24: whenever a tracker slot for a server holds a Recovery, that
\* Recovery is in activeRecoveries (neither waiting nor freed), and the
\* ApplyTrackerChanges task calls recoveryMasterFinished only on Recoveries
\* that are in activeRecoveries, never on one destroyAndFreeRecovery has
\* released.
C24_SlotHoldsActiveRecovery ==
    [][ /\ SlotsHoldActiveRecoveries
        /\ SlotsHoldActiveRecoveries'
        /\ lastOp'.op = "ApplyTrackerChangesTask" =>
              \A r \in DOMAIN recoveries :
                  recoveries'[r].notifications # recoveries[r].notifications
                      => /\ r \in activeRecoveries
                         /\ recoveries[r].status # "DONE" ]_vars

\* The ApplyTrackerChanges task has just told a Recovery that one of its
\* recovery masters is gone, and another slot still holds that Recovery.
C24_Witness ==
    /\ lastOp.op = "ApplyTrackerChangesTask"
    /\ \E r \in activeRecoveries, s \in Servers :
          /\ tracker.slot[s] = r
          /\ \E i \in DOMAIN recoveries[r].notifications :
                /\ recoveries[r].notifications[i][2] = FALSE
                /\ recoveries[r].notifications[i][1] # s
                /\ tracker.slot[recoveries[r].notifications[i][1]] = NoRecovery

\* The partitions of Recovery r that were handed to recovery master m and
\* whose verdict is failure.
FailedPartitions(r, m) ==
    { p \in DOMAIN recoveries[r].masters :
        recoveries[r].masters[p] = m /\ recoveries[r].verdict[p] = "failed" }

\* The tablets of the will of Recovery r that lie in one of the partitions.
TabletsOfPartitions(r, parts) ==
    { recoveries[r].will[i].key :
        i \in { j \in DOMAIN recoveries[r].will :
                   recoveries[r].will[j].partition \in parts } }

\* C25: once a recovery master has been recorded as failed for an active
\* Recovery, a later successful completion report from that recovery master
\* for the same recoveryId does not change the tablet map: no tablet of the
\* partition whose verdict is failure is set to NORMAL by it.
C25_FailedMasterCannotFinalize ==
    [][ ( /\ lastOp'.op = "RecoveryMasterFinishedTask"
          /\ lastOp'.task[1].successful
          /\ lastOp'.task[1].recoveryId \in activeRecoveries
          /\ FailedPartitions(lastOp'.task[1].recoveryId,
                              lastOp'.task[1].recoveryMasterId) # {} )
        => /\ tabletMap' = tabletMap
           /\ \A k \in TabletsOfPartitions(
                          lastOp'.task[1].recoveryId,
                          FailedPartitions(lastOp'.task[1].recoveryId,
                                           lastOp'.task[1].recoveryMasterId)) :
                  tabletMap'[k].status # "NORMAL"
      ]_vars

\* C26: once a completely successful recovery has removed crashed server S
\* from the server list (the only way a server leaves it), no further
\* Recovery for S is admitted into activeRecoveries, even if a duplicate
\* Recovery for S was enqueued while the first one was active.  Stated for
\* the servers whose will is not empty.
C26_NoAdmissionAfterRemoval ==
    [][ \A r \in activeRecoveries' \ activeRecoveries :
            recoveries[r].will # << >> =>
                CrashedServerOf(r) \in serverList.servers ]_vars

====
